---- MODULE Spec2Model ----
(***************************************************************************)
(* A model of the notifier's dispatch engine (src/notifier/notify.py) and  *)
(* of its resilient cache utility (src/notifier/database/utils.py).        *)
(*                                                                         *)
(* A run (notify) syncs the user config, stores the new posts, snapshots   *)
(* current_timestamp and then runs every active channel; a channel run     *)
(* (notify_channel) walks its users through notify_user inside a           *)
(* try/except and stores a channel summary.                                *)
(*                                                                         *)
(* Representation choices:                                                 *)
(*  - a Python tag string is the sequence of its pieces between single     *)
(*    spaces (str.split(" ")): "" is <<"">>, " a" is <<"", "a">>;          *)
(*  - an optional int (force_initial_search_timestamp) is <<>> for None    *)
(*    and <<v>> for the value v;                                           *)
(*  - the addresses dict is the set of its keys; a username is the user id;*)
(*  - thread_posts and post_replies are the posts of a batch whose kind is *)
(*    "thread_posts" or "post_replies".                                    *)
(***************************************************************************)
EXTENDS Integers, Sequences, FiniteSets, TLC

\* The clock ticks once per run; runs stop when it reaches MaxTime.
MaxTime == 3

Users == {1, 2}
\* The posts that can appear: a new post of thread 1 may be a thread post
\* or a reply to the user, one of thread 2 is a thread post.
PostShapes == {[thread_id |-> 1, kind |-> "thread_posts"],
               [thread_id |-> 1, kind |-> "post_replies"],
               [thread_id |-> 2, kind |-> "thread_posts"]}
Deliveries == {"pm", "email"}
\* The run is started with no force_initial_search_timestamp (<<>>) or with
\* one that reaches back before every post.
ForceValues == {<<>>, <<0>>}
\* The channel lists a run is started with; every user is on "hourly".
ChannelLists == {<<"hourly">>}
\* The threads the overrides of a user may mute in one call.
Mutes == {{}, {1}}

VARIABLES
    now,                \* wall clock (time.time())
    posts,              \* database: the stored posts
    last_notified,      \* database: user_id -> last_notified_timestamp
    page_tags,          \* remote: user_id -> tag string on the user's config page
    delivery,           \* user_id -> delivery method, for the users that exist
    pc,                 \* "idle" | "channels" | "users" | "aborted" | "returned" | "raised"
    current_timestamp,  \* notify: the run's window end
    force_initial_search_timestamp,
    active_channels,    \* notify: the channels of this run
    channel_index,      \* notify_active_channels: position in active_channels
    user_configs,       \* notify_channel: database.get_user_configs(channel)
    user_index,         \* notify_channel: position in user_configs
    notified_users,
    notified_posts,
    notified_threads,
    addresses,          \* notify_channel: the email address cache
    outcomes,           \* history: how each notify_user call of this channel run ended
    last_call,          \* history: the latest notify_user call of this run
    contact_requests,   \* history: connection.get_contacts calls of this channel run
    covered_until,      \* history: user_id -> newest posted_timestamp of the posts
                        \* of the digests that were sent (0 if none was)
    channel_log_dumps,  \* history: the channel summaries this run has stored
    forced_before,      \* history: some run so far had a force_initial_search_timestamp
    cache,              \* try_cache: what store last cached
    tc,                 \* history: the last try_cache invocation
    picked,             \* history: the last pick_channels_to_notify call
    supported_wikis,    \* database.get_supported_wikis()
    feeds,              \* wiki id -> what feedparser.parse does with the wiki's feed
    wiki_index,         \* get_new_posts: position in supported_wikis
    gnp,                \* get_new_posts: "idle", "running", "returned" or the
                        \* exception it raised
    gets,               \* history: the wikis get_new_posts called try_cache for
    schedule,           \* the active_channels lists notify may be called with
    tail_envs,          \* what the calls of notify after the channel runs may
                        \* meet: the channels that will be next, the call that raises
    effects,            \* history: what the run of notify has called, in order
    head_fails,         \* the calls of notify before the channel runs that may raise
    head_raised,        \* history: the call before the channel runs that raised in
                        \* this run ("none" if none did)
    feed_lags,          \* how far the posted_timestamp of a post that get_new_posts
                        \* stores may lie behind the clock of the run
    windowed,           \* history: user_id -> the stored posts that were inside the
                        \* lookup window of a notify_user call for the user
    stored_late,        \* history: user_id -> the posts that were stored with a
                        \* posted_timestamp at or below the user's watermark
    context_feed,       \* fetch_posts_with_context: what feedparser.parse does with
                        \* the feed of the wiki
    thread_yields,      \* thread id -> the elements connection.thread yields
    new_thread_ids,     \* fetch_posts_with_context: database.find_new_threads(...)
    thread_index,       \* fetch_posts_with_context: position in new_thread_ids
    post_index,         \* fetch_posts_with_context: position in the thread
    fpc                 \* fetch_posts_with_context: "idle", "threads", "posts",
                        \* "returned" or the exception it raised

vars == <<now, posts, last_notified, page_tags, delivery,
          pc, current_timestamp, force_initial_search_timestamp, active_channels,
          channel_index, user_configs, user_index, notified_users, notified_posts,
          notified_threads, addresses, outcomes, last_call, contact_requests,
          covered_until, channel_log_dumps, forced_before, cache, tc, picked,
          supported_wikis, feeds, wiki_index, gnp, gets, schedule, tail_envs,
          effects, head_fails, head_raised, feed_lags, windowed, stored_late,
          context_feed, thread_yields, new_thread_ids, thread_index, post_index, fpc>>

\* the database and the remote
storeVars == <<now, posts, last_notified, page_tags, delivery>>

\* the locals of notify and notify_channel, and the history of the run
localVars == <<current_timestamp, force_initial_search_timestamp, active_channels,
               channel_index, user_configs, user_index, notified_users, notified_posts,
               notified_threads, addresses, outcomes, last_call, contact_requests,
               channel_log_dumps>>

runVars == <<storeVars, pc, localVars, covered_until, forced_before, schedule, tail_envs,
            effects, head_fails, head_raised, feed_lags, windowed, stored_late>>

cacheVars == <<cache, tc>>

pickVars == <<picked>>

newpostsVars == <<supported_wikis, feeds, wiki_index, gnp, gets>>

contextVars == <<context_feed, thread_yields, new_thread_ids, thread_index, post_index, fpc>>

----------------------------------------------------------------------------
(* Tag strings *)

pm_inform_tag == "restricted-inbox"
email_inform_tag == "not-a-back-contact"

EmptyTags == <<"">>

\* `tag in tags` (substring test; no modelled tag is part of another)
HasTag(tags, tag) == \E i \in DOMAIN tags : tags[i] = tag

\* " ".join([tags, tag])
JoinTag(tags, tag) == tags \o <<tag>>

\* tags.replace(tag, "")
ReplaceTag(tags, tag) == [i \in DOMAIN tags |-> IF tags[i] = tag THEN "" ELSE tags[i]]

\* The tags of a page as the user config sync reads them back: the tags that
\* were written, without the empty pieces.
SyncedTags(written) ==
    LET kept == SelectSeq(written, LAMBDA t : t # "")
    IN IF kept = <<>> THEN EmptyTags ELSE kept

----------------------------------------------------------------------------
(* Posts *)

ThreadPosts(batch) == {p \in batch : p.kind = "thread_posts"}
PostReplies(batch) == {p \in batch : p.kind = "post_replies"}

SetMax(S) == CHOOSE x \in S : \A y \in S : y <= x

\* database.get_new_posts_for_user(user_id, (lower, upper)); every user is
\* subscribed to every thread.
get_new_posts_for_user(user_id, lower, upper) ==
    {p \in posts : lower <= p.posted_timestamp /\ p.posted_timestamp <= upper}

\* apply_overrides: the posts of the threads the overrides mute are removed.
apply_overrides(batch, muted) == {p \in batch : p.thread_id \notin muted}

WindowStartBelow(user, force) ==
    IF force = <<>>
    THEN (IF user.last_notified_timestamp > 0
          THEN user.last_notified_timestamp - 1 ELSE 0)
    ELSE force[1]

WindowStartSkipsOne(user, force) ==
    IF force = <<>> THEN user.last_notified_timestamp + 2 ELSE force[1]

WindowStartAtWatermark(user, force) ==
    IF force = <<>> THEN user.last_notified_timestamp ELSE force[1]

\* notify_user: the lower end of the lookup window
WindowStart(user, force) ==
    IF force = <<>> THEN user.last_notified_timestamp + 1 ELSE force[1]

PostCount(batch) ==
    Cardinality(ThreadPosts(batch)) + Cardinality(PostReplies(batch))

NeverSkips(post_count) == post_count < 0

\* notify_user: `if post_count == 0`
NothingToNotify(post_count) == post_count = 0

NewestThreadPost(batch) ==
    IF ThreadPosts(batch) = {}
    THEN SetMax({p.posted_timestamp : p \in batch})
    ELSE SetMax({p.posted_timestamp : p \in ThreadPosts(batch)})

\* notify_user: max(post["posted_timestamp"] for post in thread_posts + post_replies)
LastNotifiedTimestamp(batch) ==
    SetMax({p.posted_timestamp : p \in ThreadPosts(batch) \cup PostReplies(batch)})

count_threads_in_posts(some_posts) == Cardinality({p.thread_id : p \in some_posts})

count_threads(batch) ==
    count_threads_in_posts(PostReplies(batch)) + count_threads_in_posts(ThreadPosts(batch))

----------------------------------------------------------------------------
(* notify_user *)

\* One call made by notify_user; ok is FALSE when the call raised.
Call(op, ts, tags, ok) == [op |-> op, ts |-> ts, tags |-> tags, ok |-> ok]
Plain(op, ok) == Call(op, 0, <<>>, ok)
SetTags(site, tags, ok) == Call(site, 0, tags, ok)
Store(ts, ok) == Call("store_user_last_notified", ts, <<>>, ok)

\* What the environment decides for one notify_user call: the threads the
\* overrides mute, whether the user's inbox is restricted, which call raises
\* (fail) and what connection.get_contacts returns.
Env(muted, restricted, fail, contacts) ==
    [muted |-> muted, restricted |-> restricted, fail |-> fail, contacts |-> contacts]

\* The calls of a pm delivery that can raise
PmFailPoints == {"none", "get_new_posts_for_user", "send_message",
                 "store_user_last_notified", "set_tags:445"}

\* The calls of an email delivery that can raise
EmailFailPoints == {"none", "get_new_posts_for_user", "get_contacts", "set_tags:406",
                    "set_tags:416", "emailer.send:SMTPAuthenticationError",
                    "emailer.send", "store_user_last_notified", "set_tags:445"}

\* `addresses == {}`
ContactsNeeded(addrs) == addrs = {}

\* The environments that differ for a call with this user and address cache.
Envs(user, addrs) ==
    IF user.delivery = "pm"
    THEN {Env(m, FALSE, f, {}) : m \in Mutes, f \in PmFailPoints}
         \cup {Env(m, TRUE, f, {}) : m \in Mutes, f \in {"none", "set_tags:366"}}
    ELSE {Env(m, FALSE, f, c) :
              m \in Mutes, f \in EmailFailPoints,
              c \in IF ContactsNeeded(addrs)
                    THEN SUBSET {u \in DOMAIN delivery : delivery[u] = "email"}
                    ELSE {{}}}

\* The outcome of the delivery part: raised is the exception that left it
\* ("none" if none), early says notify_user returned False, 0, 0 from it.
Delivery(raised, early, calls, addrs) ==
    [raised |-> raised, early |-> early, calls |-> calls, addresses |-> addrs]

\* A pm delivery that writes the inform tag at every restricted inbox.
SendPmTagsAnyway(user, env, addrs) ==
    IF env.restricted
    THEN Delivery("none", TRUE,
                  <<Plain("send_message", FALSE),
                    SetTags("set_tags:366", JoinTag(user.tags, pm_inform_tag), TRUE)>>,
                  addrs)
    ELSE Delivery("none", FALSE, <<Plain("send_message", TRUE)>>, addrs)

\* notify_user: delivery == "pm"
SendPm(user, env, addrs) ==
    IF env.fail = "send_message"
    THEN Delivery("Exception", FALSE, <<Plain("send_message", FALSE)>>, addrs)
    ELSE IF env.restricted
    THEN \* except RestrictedInbox
         IF ~HasTag(user.tags, pm_inform_tag)
         THEN IF env.fail = "set_tags:366"
              THEN Delivery("Exception", FALSE,
                            <<Plain("send_message", FALSE),
                              SetTags("set_tags:366", JoinTag(user.tags, pm_inform_tag), FALSE)>>,
                            addrs)
              ELSE Delivery("none", TRUE,
                            <<Plain("send_message", FALSE),
                              SetTags("set_tags:366", JoinTag(user.tags, pm_inform_tag), TRUE)>>,
                            addrs)
         ELSE Delivery("none", TRUE, <<Plain("send_message", FALSE)>>, addrs)
    ELSE Delivery("none", FALSE, <<Plain("send_message", TRUE)>>, addrs)

\* An email delivery that leaves the tags of a user without address alone.
SendEmailNoTag(user, env, addrs) ==
    LET addrs1 == IF ContactsNeeded(addrs) THEN addrs \cup env.contacts ELSE addrs
        calls1 == IF ContactsNeeded(addrs) THEN <<Plain("get_contacts", TRUE)>> ELSE <<>>
    IN  IF user.user_id \notin addrs1
        THEN Delivery("none", TRUE, calls1, addrs1)
        ELSE Delivery("none", FALSE, calls1 \o <<Plain("emailer.send", TRUE)>>, addrs1)

\* An email delivery that takes the inform tag off after the email is sent.
SendEmailThenHeal(user, env, addrs) ==
    LET addrs1 == IF ContactsNeeded(addrs) THEN addrs \cup env.contacts ELSE addrs
        calls1 == IF ContactsNeeded(addrs) THEN <<Plain("get_contacts", TRUE)>> ELSE <<>>
    IN  IF user.user_id \notin addrs1
        THEN Delivery("none", TRUE, calls1, addrs1)
        ELSE Delivery("none", FALSE,
                      calls1 \o <<Plain("emailer.send", TRUE)>>
                             \o (IF HasTag(user.tags, email_inform_tag)
                                 THEN <<SetTags("set_tags:416",
                                                ReplaceTag(user.tags, email_inform_tag),
                                                TRUE)>>
                                 ELSE <<>>),
                      addrs1)

\* notify_user: delivery == "email"
SendEmail(user, env, addrs) ==
    IF ContactsNeeded(addrs) /\ env.fail = "get_contacts"
    THEN Delivery("Exception", FALSE, <<Plain("get_contacts", FALSE)>>, addrs)
    ELSE
    LET addrs1 == IF ContactsNeeded(addrs) THEN addrs \cup env.contacts ELSE addrs
        calls1 == IF ContactsNeeded(addrs) THEN <<Plain("get_contacts", TRUE)>> ELSE <<>>
    IN  IF user.user_id \notin addrs1
        THEN \* except KeyError
             IF ~HasTag(user.tags, email_inform_tag)
             THEN IF env.fail = "set_tags:406"
                  THEN Delivery("Exception", FALSE,
                                calls1 \o <<SetTags("set_tags:406",
                                                    JoinTag(user.tags, email_inform_tag), FALSE)>>,
                                addrs1)
                  ELSE Delivery("none", TRUE,
                                calls1 \o <<SetTags("set_tags:406",
                                                    JoinTag(user.tags, email_inform_tag), TRUE)>>,
                                addrs1)
             ELSE Delivery("none", TRUE, calls1, addrs1)
        ELSE
        LET heal == HasTag(user.tags, email_inform_tag)
            calls2 == IF heal
                      THEN calls1 \o <<SetTags("set_tags:416",
                                               ReplaceTag(user.tags, email_inform_tag),
                                               env.fail # "set_tags:416")>>
                      ELSE calls1
        IN  IF heal /\ env.fail = "set_tags:416"
            THEN Delivery("Exception", FALSE, calls2, addrs1)
            ELSE IF env.fail = "emailer.send:SMTPAuthenticationError"
            THEN Delivery("SMTPAuthenticationError", FALSE,
                          calls2 \o <<Plain("emailer.send", FALSE)>>, addrs1)
            ELSE IF env.fail = "emailer.send"
            THEN Delivery("Exception", FALSE,
                          calls2 \o <<Plain("emailer.send", FALSE)>>, addrs1)
            ELSE Delivery("none", FALSE, calls2 \o <<Plain("emailer.send", TRUE)>>, addrs1)

Deliver(user, env, addrs) ==
    IF user.delivery = "pm" THEN SendPm(user, env, addrs)
    ELSE SendEmail(user, env, addrs)

\* What notify_user did: raised is the exception it left with ("none" when
\* it returned); sent, post_count and thread_count are the returned tuple;
\* fetched says that get_new_posts_for_user returned.
Result(raised, sent, post_count, thread_count, calls, addrs, fetched, batch, start) ==
    [raised |-> raised, sent |-> sent, post_count |-> post_count,
     thread_count |-> thread_count, calls |-> calls, addresses |-> addrs,
     fetched |-> fetched, batch |-> batch, window_start |-> start]

\* A record step that clears the tags before it stores the watermark.
ClearTagsThenStore(user, env, batch, start, last_notified_timestamp, d) ==
    Result("none", TRUE, PostCount(batch), count_threads(batch),
           d.calls \o (IF user.tags # EmptyTags
                       THEN <<SetTags("set_tags:445", EmptyTags, TRUE)>> ELSE <<>>)
                   \o <<Store(last_notified_timestamp, TRUE)>>,
           d.addresses, TRUE, batch, start)

\* notify_user after the delivery returned: store the watermark, clear the
\* tags, return True.
Record(user, env, batch, start, last_notified_timestamp, d) ==
    IF env.fail = "store_user_last_notified"
    THEN Result("Exception", FALSE, 0, 0,
                d.calls \o <<Store(last_notified_timestamp, FALSE)>>,
                d.addresses, TRUE, batch, start)
    ELSE IF user.tags # EmptyTags
    THEN IF env.fail = "set_tags:445"
         THEN Result("Exception", FALSE, 0, 0,
                     d.calls \o <<Store(last_notified_timestamp, TRUE),
                                  SetTags("set_tags:445", EmptyTags, FALSE)>>,
                     d.addresses, TRUE, batch, start)
         ELSE Result("none", TRUE, PostCount(batch), count_threads(batch),
                     d.calls \o <<Store(last_notified_timestamp, TRUE),
                                  SetTags("set_tags:445", EmptyTags, TRUE)>>,
                     d.addresses, TRUE, batch, start)
    ELSE Result("none", TRUE, PostCount(batch), count_threads(batch),
                d.calls \o <<Store(last_notified_timestamp, TRUE)>>,
                d.addresses, TRUE, batch, start)

\* A notify_user that records the watermark before it delivers.
RecordThenDeliver(user, env, addrs, batch, start) ==
    LET d == Deliver(user, env, addrs)
        stored == <<Store(LastNotifiedTimestamp(batch), TRUE)>>
    IN  IF d.raised # "none"
        THEN Result(d.raised, FALSE, 0, 0, stored \o d.calls, d.addresses, TRUE, batch, start)
        ELSE IF d.early
        THEN Result("none", FALSE, 0, 0, stored \o d.calls, d.addresses, TRUE, batch, start)
        ELSE Result("none", TRUE, PostCount(batch), count_threads(batch),
                    stored \o d.calls, d.addresses, TRUE, batch, start)

\* notify_user from the digest on: deliver, and only then record.
DeliverThenRecord(user, env, addrs, batch, start) ==
    LET d == Deliver(user, env, addrs)
    IN  IF d.raised # "none"
        THEN Result(d.raised, FALSE, 0, 0, d.calls, d.addresses, TRUE, batch, start)
        ELSE IF d.early
        THEN Result("none", FALSE, 0, 0, d.calls, d.addresses, TRUE, batch, start)
        ELSE Record(user, env, batch, start, LastNotifiedTimestamp(batch), d)

notify_user(user, current, force, env, addrs) ==
    LET start == WindowStart(user, force)
        batch == apply_overrides(get_new_posts_for_user(user.user_id, start, current),
                                 env.muted)
        post_count == PostCount(batch)
    IN  IF env.fail = "get_new_posts_for_user"
        THEN Result("Exception", FALSE, 0, 0, <<>>, addrs, FALSE, {}, start)
        ELSE IF NothingToNotify(post_count)
        THEN Result("none", FALSE, 0, 0, <<>>, addrs, TRUE, batch, start)
        ELSE IF batch = {}
        THEN \* max() of an empty sequence
             Result("ValueError", FALSE, 0, 0, <<>>, addrs, TRUE, batch, start)
        ELSE DeliverThenRecord(user, env, addrs, batch, start)

----------------------------------------------------------------------------
(* The effect of notify_user's calls on the database and the remote *)

RECURSIVE StoredAfter(_, _)
\* the watermark after the calls, from the watermark before them
StoredAfter(calls, before) ==
    IF calls = <<>> THEN before
    ELSE LET c == Head(calls)
         IN StoredAfter(Tail(calls),
                        IF c.op = "store_user_last_notified" /\ c.ok THEN c.ts ELSE before)

IsSetTags(c) == c.op \in {"set_tags:366", "set_tags:406", "set_tags:416", "set_tags:445"}

RECURSIVE TagsAfter(_, _)
\* the page's tags after the calls
TagsAfter(calls, before) ==
    IF calls = <<>> THEN before
    ELSE LET c == Head(calls)
         IN TagsAfter(Tail(calls), IF IsSetTags(c) /\ c.ok THEN c.tags ELSE before)

CountCalls(calls, op) == Cardinality({i \in DOMAIN calls : calls[i].op = op})

\* The call of notify_user that raised ("" if it returned)
RaisedAt(r) ==
    IF r.raised = "none" THEN ""
    ELSE IF r.calls = <<>>
    THEN (IF r.fetched THEN "max" ELSE "get_new_posts_for_user")
    ELSE r.calls[Len(r.calls)].op

----------------------------------------------------------------------------
(* notify_channel *)

OnlySmtpCaught(raised) == raised = "SMTPAuthenticationError"

\* notify_channel: `except SMTPAuthenticationError` and `except Exception`
Caught(raised) == raised \in {"SMTPAuthenticationError", "Exception", "ValueError"}

CountsEveryReturn(r) == r.raised = "none"

\* notify_channel: `if sent:`
Counted(r) == r.raised = "none" /\ r.sent

\* database.get_user_configs(channel): the users of the channel by user id,
\* with the tags the user config sync of this run read from their pages
RECURSIVE ConfigsOf(_)
ConfigsOf(ids) ==
    IF ids = {} THEN <<>>
    ELSE LET u == CHOOSE x \in ids : \A y \in ids : x <= y
         IN <<[user_id |-> u,
               last_notified_timestamp |-> last_notified[u],
               tags |-> SyncedTags(page_tags[u]),
               delivery |-> delivery[u]]>> \o ConfigsOf(ids \ {u})

Frequency(u) == "hourly"

get_user_configs(channel) == ConfigsOf({u \in DOMAIN delivery : Frequency(u) = channel})

NoCall == [invoked |-> FALSE, user_id |-> 0, muted |-> {}, raised |-> "none",
           sent |-> FALSE, post_count |-> 0, thread_count |-> 0, calls |-> <<>>,
           fetched |-> FALSE, batch |-> {}, window_start |-> 0,
           watermark_before |-> 0, tags_before |-> EmptyTags, addresses_before |-> {},
           addresses_after |-> {}, restricted |-> FALSE]

----------------------------------------------------------------------------
(* try_cache *)

\* None and the values get returns
None == "None"
Values == {"None", "[]", "a", "b"}

\* Exception classes, with their base classes
ExcKinds == {"Exception", "OSError", "ConnectionError"}
IsSubclass(k, base) ==
    \/ k = base
    \/ base = "Exception"
    \/ k = "ConnectionError" /\ base = "OSError"

\* What get does: return a value or raise
GetOutcomes == [kind : {"return"}, value : Values, exc : {"none"}]
               \cup [kind : {"raise"}, value : {None}, exc : ExcKinds]

\* catch: None (<<>>) or a tuple of exception classes (<<S>>)
CatchChoices == {<<>>} \cup {<<S>> : S \in SUBSET ExcKinds}

StartsAsNone(do_not_store) == None

\* try_cache: `value = do_not_store`
InitialValue(do_not_store) == do_not_store

NeverPropagates(raised, caught) == FALSE

\* try_cache: `except catch` lets through what catch does not name
Propagates(raised, caught) == raised /\ ~caught

StoresAlways(value, do_not_store) == TRUE

\* try_cache: `if value != do_not_store`
ShouldStore(value, do_not_store) == value # do_not_store

try_cache(get, do_not_store, catch) ==
    LET catch1 == IF catch = <<>> THEN {} ELSE catch[1]
        raised == get.kind = "raise"
        caught == raised /\ \E c \in catch1 : IsSubclass(get.exc, c)
        value == IF raised THEN InitialValue(do_not_store) ELSE get.value
    IN  IF Propagates(raised, caught)
        THEN [propagated |-> get.exc, store_calls |-> <<>>]
        ELSE [propagated |-> "none",
              store_calls |-> IF ShouldStore(value, do_not_store) THEN <<value>> ELSE <<>>]

NoInvocation == [get |-> [kind |-> "return", value |-> None, exc |-> "none"],
                 do_not_store |-> None, catch |-> <<>>,
                 propagated |-> "none", store_calls |-> <<>>,
                 cache_before |-> "unset", invoked |-> FALSE]

----------------------------------------------------------------------------
(* pick_channels_to_notify *)

\* A crontab: minute, hour, day of month, month, day of week
Crontab(minute, hour, dom, month, dow) == <<minute, hour, dom, month, dow>>

\* A table in which the daily and the 8hourly channel have each other's
\* crontab
SwappedChannels ==
    <<[name |-> "hourly",  crontab |-> Crontab("0", "*", "*", "*", "*")],
      [name |-> "8hourly", crontab |-> Crontab("0", "0", "*", "*", "*")],
      [name |-> "daily",   crontab |-> Crontab("0", "*/8", "*", "*", "*")],
      [name |-> "weekly",  crontab |-> Crontab("0", "0", "*", "*", "0")],
      [name |-> "monthly", crontab |-> Crontab("0", "0", "1", "*", "*")],
      [name |-> "test",    crontab |-> Crontab("x", "x", "x", "x", "x")]>>

\* notification_channels, in the order of the dict
notification_channels ==
    <<[name |-> "hourly",  crontab |-> Crontab("0", "*", "*", "*", "*")],
      [name |-> "8hourly", crontab |-> Crontab("0", "*/8", "*", "*", "*")],
      [name |-> "daily",   crontab |-> Crontab("0", "0", "*", "*", "*")],
      [name |-> "weekly",  crontab |-> Crontab("0", "0", "*", "*", "0")],
      [name |-> "monthly", crontab |-> Crontab("0", "0", "1", "*", "*")],
      [name |-> "test",    crontab |-> Crontab("x", "x", "x", "x", "x")]>>

\* notification_channels.keys()
ChannelNames == {notification_channels[i].name : i \in DOMAIN notification_channels}

\* The instants a call may happen at, as minute, hour, day of month, month
\* and day of week (0 is Sunday)
Times == {<<mi, h, d, 1, w>> : mi \in {0, 30}, h \in {0, 8, 9}, d \in {1, 2}, w \in {0, 1}}

\* Whether one field of a crontab matches a value; "x" matches nothing.
FieldMatches(field, v) ==
    CASE field = "*"   -> TRUE
      [] field = "*/8" -> v % 8 = 0
      [] field = "0"   -> v = 0
      [] field = "1"   -> v = 1
      [] OTHER         -> FALSE

\* channel_is_now(crontab), at the instant t
channel_is_now(crontab, t) == \A i \in 1..5 : FieldMatches(crontab[i], t[i])

\* force_channels: None (<<>>) or a list of names (<<list>>)
ForcedNames == {"hourly", "daily", "weekly", "yearly"}
ForceChannels ==
    {<<>>} \cup {<<l>> : l \in {<<>>} \cup {<<a>> : a \in ForcedNames}
                              \cup {<<a, b>> : a \in ForcedNames, b \in ForcedNames}}

ForcedAndDue(force_channels, t) ==
    SelectSeq(force_channels[1],
              LAMBDA c : \E i \in DOMAIN notification_channels :
                             /\ notification_channels[i].name = c
                             /\ channel_is_now(notification_channels[i].crontab, t))

\* pick_channels_to_notify: the channels chosen manually
ForcedChoice(force_channels, t) ==
    SelectSeq(force_channels[1], LAMBDA c : c \in ChannelNames)

FirstDue(t) ==
    LET due == SelectSeq(notification_channels, LAMBDA ch : channel_is_now(ch.crontab, t))
    IN  IF due = <<>> THEN <<>> ELSE <<due[1].name>>

\* pick_channels_to_notify: the channels of the current timestamp
TimedChoice(t) ==
    LET due == SelectSeq(notification_channels, LAMBDA ch : channel_is_now(ch.crontab, t))
    IN  [i \in DOMAIN due |-> due[i].name]

pick_channels_to_notify(force_channels, t) ==
    IF force_channels = <<>> \/ Len(force_channels[1]) = 0
    THEN TimedChoice(t)
    ELSE ForcedChoice(force_channels, t)

NoPick == [invoked |-> FALSE, force_channels |-> <<>>, time |-> <<0, 0, 1, 1, 0>>,
           channels |-> <<>>]

----------------------------------------------------------------------------
(* get_new_posts *)

Wikis == {1, 2, 3}

\* What feedparser.parse does with a feed: raise, or return a feed without
\* or with entries
FeedOutcomes == {"raises", "no entries", "entries"}

\* database.get_supported_wikis(), as the run finds it
WikiLists == {<<>>, <<1>>, <<1, 2>>, <<1, 2, 3>>}

\* fetch_new_posts_rss: what the call does, by what feedparser.parse did.
\* When parse raised, the name feed is not bound at the return statement.
fetch_new_posts_rss(parsed) ==
    CASE parsed = "raises"     -> [kind |-> "raise", value |-> None, exc |-> "UnboundLocalError"]
      [] parsed = "no entries" -> [kind |-> "return", value |-> "[]", exc |-> "none"]
      [] parsed = "entries"    -> [kind |-> "return", value |-> "a", exc |-> "none"]

\* get_new_posts: `store=lambda: None`, called by try_cache with the value
StoreRaises(store_calls) == IF store_calls # <<>> THEN "TypeError" ELSE "none"

\* get_new_posts: one turn of the loop, the exception that leaves it
\* ("none" if none does)
FetchWiki(parsed) ==
    LET r == try_cache(fetch_new_posts_rss(parsed), "[]", <<>>)
    IN  IF r.propagated # "none" THEN r.propagated ELSE StoreRaises(r.store_calls)

NoNewPostsRun ==
    /\ supported_wikis = <<>>
    /\ feeds = [w \in Wikis |-> "no entries"]
    /\ wiki_index = 1
    /\ gnp = "idle"
    /\ gets = <<>>

----------------------------------------------------------------------------
(* fetch_posts_with_context *)

ContextThreads == {1, 2}

\* What connection.thread may yield for a thread: nothing, the category info
\* (a tuple of two) alone or followed by a post, or something else
ThreadYields == {<<>>, <<"tuple">>, <<"tuple", "post">>, <<"post">>, <<"tuple", "tuple">>}

\* database.find_new_threads: the threads of the new posts that are new, for
\* what fetch_new_posts_rss returned
find_new_threads(new_posts) ==
    IF new_posts = "[]" THEN {<<>>}
    ELSE {<<>>, <<1>>, <<2>>, <<1, 2>>}

\* fetch_posts_with_context: the element at post_index 0. The name
\* do_something_with_the_category_info is bound nowhere.
CategoryInfoStep(post) ==
    IF post # "tuple" THEN "AssertionError" ELSE "NameError"

\* fetch_posts_with_context: an element at a later post_index
PostStep(post) ==
    IF post = "tuple" THEN "AssertionError" ELSE "none"

NoContextRun ==
    /\ context_feed = "no entries"
    /\ thread_yields = [t \in ContextThreads |-> <<>>]
    /\ new_thread_ids = <<>>
    /\ thread_index = 1
    /\ post_index = 0
    /\ fpc = "idle"

----------------------------------------------------------------------------
(* notify *)

\* The calls of notify before notify_active_channels that can raise: the
\* config sync, the fetching of the new posts, the login
HeadFailPoints == {"none", "get_global_config", "get_user_config", "get_new_posts",
                   "login"}

LoginFailureIgnored(fail) == fail \notin {"none", "login"}

\* notify: no call before notify_active_channels is inside a try
HeadRaises(fail) == fail # "none"

\* notify: get_new_posts has returned when login is called
PostsFetched(fail) == fail \in {"none", "login"}

\* The lists of active channels a caller may pass to notify: what
\* pick_channels_to_notify returns for no channel due or known, and for the
\* forced lists [hourly], [hourly, daily] and [hourly, hourly]
RunChannelLists == {<<>>, <<"hourly">>, <<"hourly", "daily">>, <<"hourly", "hourly">>}

\* notify: `for frequency in ["weekly", "monthly"]`
MaintenanceOrder == <<"weekly", "monthly">>
MaintainedChannels == {"weekly", "monthly"}

\* The calls of notify after notify_active_channels that can raise
TailFailPoints == {"none", "store_activation_log_dump",
                   "delete_prepared_invalid_user_pages"}

\* notify: the maintenance, for the channels that will be next
Maintenance(next_up) ==
    LET due == SelectSeq(MaintenanceOrder, LAMBDA f : f \in next_up)
    IN  [i \in DOMAIN due |-> "clear_deleted_posts"]

PurgeBeforeSummary(next_up, fail) ==
    <<"delete_prepared_invalid_user_pages", "rename_invalid_user_config_pages",
      "upload_log_dump_to_s3", "store_activation_log_dump">>

SummaryOnly(next_up, fail) ==
    <<"store_activation_log_dump", "upload_log_dump_to_s3">> \o Maintenance(next_up)

\* notify after notify_active_channels returned: the calls it makes, up to
\* and with the one that raises
TailEffects(next_up, fail) ==
    IF fail = "store_activation_log_dump"
    THEN <<"store_activation_log_dump">>
    ELSE <<"store_activation_log_dump", "upload_log_dump_to_s3">>
         \o Maintenance(next_up)
         \o (IF fail = "delete_prepared_invalid_user_pages"
             THEN <<"delete_prepared_invalid_user_pages">>
             ELSE <<"delete_prepared_invalid_user_pages",
                    "rename_invalid_user_config_pages">>)

TailRaises(next_up, fail) == fail # "none"

\* What the calls after the channel runs may meet
TailEnvs == [next_up : SUBSET MaintainedChannels, fail : TailFailPoints]

\* No channel will be next and no call raises
QuietTail == [next_up |-> {}, fail |-> "none"]

----------------------------------------------------------------------------
(* Initial states *)

\* The locals of notify and notify_channel outside a run
NoRun ==
    /\ current_timestamp = 0
    /\ force_initial_search_timestamp = <<>>
    /\ active_channels = <<>>
    /\ channel_index = 1
    /\ user_configs = <<>>
    /\ user_index = 1
    /\ notified_users = 0
    /\ notified_posts = 0
    /\ notified_threads = 0
    /\ addresses = {}
    /\ outcomes = <<>>
    /\ last_call = NoCall
    /\ contact_requests = 0
    /\ channel_log_dumps = <<>>

\* One user, of either delivery method, and an empty database.
Init ==
    /\ now = 0
    /\ posts = {}
    /\ delivery \in [{1} -> Deliveries]
    /\ last_notified = [u \in {1} |-> 0]
    /\ page_tags = [u \in {1} |-> EmptyTags]
    /\ pc = "idle"
    /\ NoRun
    /\ covered_until = [u \in {1} |-> 0]
    /\ forced_before = FALSE
    /\ cache = "unset"
    /\ tc = NoInvocation
    /\ picked = NoPick
    /\ NoNewPostsRun
    /\ schedule = ChannelLists
    /\ tail_envs = {QuietTail}
    /\ effects = <<>>
    /\ head_fails = {"none"}
    /\ head_raised = "none"
    /\ feed_lags = {0}
    /\ windowed = [u \in DOMAIN delivery |-> {}]
    /\ stored_late = [u \in DOMAIN delivery |-> {}]
    /\ NoContextRun

\* The posts a database may hold before the run that InitChannel precedes
EarlierPostSets ==
    {{},
     {[thread_id |-> 1, posted_timestamp |-> 1, kind |-> "thread_posts"]},
     {[thread_id |-> 1, posted_timestamp |-> 1, kind |-> "thread_posts"],
      [thread_id |-> 2, posted_timestamp |-> 1, kind |-> "thread_posts"]}}

\* The tags a user's page may carry before a run: none, or the inform tag an
\* earlier run wrote for the user's delivery method.
EarlierTags(method) ==
    {EmptyTags, IF method = "pm" THEN <<pm_inform_tag>> ELSE <<email_inform_tag>>}

\* Two users of any delivery methods, none of them notified yet, before the
\* last run of the clock.
InitChannel ==
    /\ now = MaxTime - 1
    /\ posts \in EarlierPostSets
    /\ delivery \in [Users -> Deliveries]
    /\ last_notified = [u \in Users |-> 0]
    /\ page_tags \in {t \in [Users -> {EmptyTags, <<pm_inform_tag>>, <<email_inform_tag>>}] :
                         \A u \in Users : t[u] \in EarlierTags(delivery[u])}
    /\ pc = "idle"
    /\ NoRun
    /\ covered_until = [u \in Users |-> 0]
    /\ forced_before = FALSE
    /\ cache = "unset"
    /\ tc = NoInvocation
    /\ picked = NoPick
    /\ NoNewPostsRun
    /\ schedule = ChannelLists
    /\ tail_envs = {QuietTail}
    /\ effects = <<>>
    /\ head_fails = {"none"}
    /\ head_raised = "none"
    /\ feed_lags = {0}
    /\ windowed = [u \in DOMAIN delivery |-> {}]
    /\ stored_late = [u \in DOMAIN delivery |-> {}]
    /\ NoContextRun

\* Before a call of get_new_posts: the supported wikis and the state of
\* their feeds
InitNewPosts ==
    /\ now = 0
    /\ posts = {}
    /\ delivery = [u \in {1} |-> "pm"]
    /\ last_notified = [u \in {1} |-> 0]
    /\ page_tags = [u \in {1} |-> EmptyTags]
    /\ pc = "idle"
    /\ NoRun
    /\ covered_until = [u \in {1} |-> 0]
    /\ forced_before = FALSE
    /\ cache = "unset"
    /\ tc = NoInvocation
    /\ picked = NoPick
    /\ supported_wikis \in WikiLists
    /\ feeds \in [Wikis -> FeedOutcomes]
    /\ wiki_index = 1
    /\ gnp = "idle"
    /\ gets = <<>>
    /\ schedule = ChannelLists
    /\ tail_envs = {QuietTail}
    /\ effects = <<>>
    /\ head_fails = {"none"}
    /\ head_raised = "none"
    /\ feed_lags = {0}
    /\ windowed = [u \in DOMAIN delivery |-> {}]
    /\ stored_late = [u \in DOMAIN delivery |-> {}]
    /\ NoContextRun

\* One user of either delivery method, an empty database, a caller that
\* passes any of RunChannelLists and a run that may meet any of TailEnvs,
\* before the last two runs of the clock.
InitRun ==
    /\ now = MaxTime - 2
    /\ posts = {}
    /\ delivery \in [{1} -> Deliveries]
    /\ last_notified = [u \in {1} |-> 0]
    /\ page_tags = [u \in {1} |-> EmptyTags]
    /\ pc = "idle"
    /\ NoRun
    /\ covered_until = [u \in {1} |-> 0]
    /\ forced_before = FALSE
    /\ cache = "unset"
    /\ tc = NoInvocation
    /\ picked = NoPick
    /\ NoNewPostsRun
    /\ schedule = RunChannelLists
    /\ tail_envs = TailEnvs
    /\ effects = <<>>
    /\ head_fails = HeadFailPoints
    /\ head_raised = "none"
    /\ feed_lags = {0}
    /\ windowed = [u \in DOMAIN delivery |-> {}]
    /\ stored_late = [u \in DOMAIN delivery |-> {}]
    /\ NoContextRun

\* The lags of SpecLate: a post is stored by the run of its posted_timestamp
\* or by the run after it
FeedLags == {0, 1}

\* One pm user and an empty database, with feeds that may deliver a post
\* one run late.
InitLate ==
    /\ now = 0
    /\ posts = {}
    /\ delivery = [u \in {1} |-> "pm"]
    /\ last_notified = [u \in {1} |-> 0]
    /\ page_tags = [u \in {1} |-> EmptyTags]
    /\ pc = "idle"
    /\ NoRun
    /\ covered_until = [u \in {1} |-> 0]
    /\ forced_before = FALSE
    /\ cache = "unset"
    /\ tc = NoInvocation
    /\ picked = NoPick
    /\ NoNewPostsRun
    /\ schedule = ChannelLists
    /\ tail_envs = {QuietTail}
    /\ effects = <<>>
    /\ head_fails = {"none"}
    /\ head_raised = "none"
    /\ feed_lags = FeedLags
    /\ windowed = [u \in DOMAIN delivery |-> {}]
    /\ stored_late = [u \in DOMAIN delivery |-> {}]
    /\ NoContextRun

\* Before a call of fetch_posts_with_context: the state of the wiki's feed
\* and what connection.thread yields for each thread
InitContext ==
    /\ now = 0
    /\ posts = {}
    /\ delivery = [u \in {1} |-> "pm"]
    /\ last_notified = [u \in {1} |-> 0]
    /\ page_tags = [u \in {1} |-> EmptyTags]
    /\ pc = "idle"
    /\ NoRun
    /\ covered_until = [u \in {1} |-> 0]
    /\ forced_before = FALSE
    /\ cache = "unset"
    /\ tc = NoInvocation
    /\ picked = NoPick
    /\ NoNewPostsRun
    /\ schedule = ChannelLists
    /\ tail_envs = {QuietTail}
    /\ effects = <<>>
    /\ head_fails = {"none"}
    /\ head_raised = "none"
    /\ feed_lags = {0}
    /\ windowed = [u \in DOMAIN delivery |-> {}]
    /\ stored_late = [u \in DOMAIN delivery |-> {}]
    /\ context_feed \in FeedOutcomes
    /\ thread_yields \in [ContextThreads -> ThreadYields]
    /\ new_thread_ids = <<>>
    /\ thread_index = 1
    /\ post_index = 0
    /\ fpc = "idle"

----------------------------------------------------------------------------
(* Actions *)

\* The posts get_new_posts may find and store in a run at time t: none, or
\* one post, whose posted_timestamp lies behind t by one of the lags.
NewPosts(t, lags) ==
    {{}} \cup {{[thread_id |-> s.thread_id, posted_timestamp |-> t - l, kind |-> s.kind]} :
               s \in PostShapes, l \in {k \in lags : t - k >= 1}}

\* The posts among stored whose posted_timestamp is not above the watermark
Late(stored, watermark) == {p \in stored : p.posted_timestamp <= watermark}

\* The posts inside a lookup window, both ends included
InWindow(lower, upper) ==
    {p \in posts : lower <= p.posted_timestamp /\ p.posted_timestamp <= upper}

\* notify without active channels: `if len(active_channels) == 0: return`
NotifyNoActiveChannels ==
    /\ pc = "idle"
    /\ now < MaxTime
    /\ now' = now + 1
    /\ \E chs \in schedule : Len(chs) = 0 /\ active_channels' = chs
    /\ effects' = <<>>
    /\ pc' = "returned"
    /\ UNCHANGED <<posts, last_notified, page_tags, delivery, current_timestamp,
                   force_initial_search_timestamp, channel_index, user_configs,
                   user_index, notified_users, notified_posts, notified_threads,
                   addresses, outcomes, last_call, contact_requests,
                   channel_log_dumps, covered_until, forced_before, schedule, tail_envs,
                   head_fails, head_raised, feed_lags, windowed, stored_late>>
    /\ UNCHANGED <<cacheVars, pickVars, newpostsVars, contextVars>>

\* notify, up to the call of notify_active_channels, or up to the call
\* before it that raises
Notify ==
    /\ pc = "idle"
    /\ now < MaxTime
    /\ now' = now + 1
    /\ \E chs \in schedule : Len(chs) # 0 /\ active_channels' = chs
    /\ effects' = <<>>
    /\ \E fail \in head_fails :
           /\ head_raised' = fail
           /\ \E new \in NewPosts(now + 1, feed_lags) :
                  LET stored == IF PostsFetched(fail) THEN new \ posts ELSE {}
                  IN  /\ posts' = posts \cup stored
                      /\ stored_late' =
                             [u \in DOMAIN stored_late |->
                                  stored_late[u] \cup Late(stored, last_notified[u])]
           /\ IF HeadRaises(fail)
              THEN /\ pc' = "raised"
                   /\ UNCHANGED <<current_timestamp, force_initial_search_timestamp,
                                  forced_before>>
              ELSE /\ pc' = "channels"
                   /\ current_timestamp' = now + 1
                   /\ \E f \in ForceValues :
                          /\ force_initial_search_timestamp' = f
                          /\ forced_before' = (forced_before \/ f # <<>>)
    /\ channel_index' = 1
    /\ UNCHANGED <<last_notified, page_tags, delivery, user_configs, user_index,
                   notified_users, notified_posts, notified_threads, addresses,
                   outcomes, last_call, contact_requests, channel_log_dumps,
                   covered_until, schedule, tail_envs, head_fails, feed_lags, windowed>>
    /\ UNCHANGED <<cacheVars, pickVars, newpostsVars, contextVars>>

\* notify_channel, up to the loop over the users
NotifyChannelBegin ==
    /\ pc = "channels"
    /\ channel_index <= Len(active_channels)
    /\ user_configs' = get_user_configs(active_channels[channel_index])
    /\ user_index' = 1
    /\ notified_users' = 0
    /\ notified_posts' = 0
    /\ notified_threads' = 0
    /\ addresses' = {}
    /\ outcomes' = <<>>
    /\ contact_requests' = 0
    /\ pc' = "users"
    /\ UNCHANGED <<storeVars, current_timestamp, force_initial_search_timestamp,
                   active_channels, channel_index, last_call, covered_until,
                   channel_log_dumps, forced_before, schedule, tail_envs, effects,
                   head_fails, head_raised, feed_lags, windowed, stored_late>>
    /\ UNCHANGED <<cacheVars, pickVars, newpostsVars, contextVars>>

\* notify_channel: one turn of the loop over the users
NotifyChannelUser ==
    /\ pc = "users"
    /\ user_index <= Len(user_configs)
    /\ \E env \in Envs(user_configs[user_index], addresses) :
        LET user == user_configs[user_index]
            r == notify_user(user, current_timestamp, force_initial_search_timestamp,
                             env, addresses)
            u == user.user_id
        IN  /\ last_notified' = [last_notified EXCEPT ![u] = StoredAfter(r.calls, @)]
            /\ page_tags' = [page_tags EXCEPT ![u] = TagsAfter(r.calls, @)]
            /\ addresses' = r.addresses
            /\ notified_users' = notified_users + (IF Counted(r) THEN 1 ELSE 0)
            /\ notified_posts' = notified_posts + (IF Counted(r) THEN r.post_count ELSE 0)
            /\ notified_threads' = notified_threads + (IF Counted(r) THEN r.thread_count ELSE 0)
            /\ outcomes' = Append(outcomes,
                                  [user_id |-> u, raised |-> r.raised,
                                   raised_at |-> RaisedAt(r), sent |-> r.sent,
                                   post_count |-> r.post_count,
                                   thread_count |-> r.thread_count])
            /\ last_call' = [invoked |-> TRUE, user_id |-> u, muted |-> env.muted,
                             raised |-> r.raised, sent |-> r.sent,
                             post_count |-> r.post_count,
                             thread_count |-> r.thread_count, calls |-> r.calls,
                             fetched |-> r.fetched, batch |-> r.batch,
                             window_start |-> r.window_start,
                             watermark_before |-> last_notified[u],
                             tags_before |-> page_tags[u],
                             addresses_before |-> addresses,
                             addresses_after |-> r.addresses,
                             restricted |-> env.restricted]
            /\ contact_requests' = contact_requests + CountCalls(r.calls, "get_contacts")
            /\ windowed' = [windowed EXCEPT
                                ![u] = @ \cup InWindow(r.window_start, current_timestamp)]
            /\ covered_until' =
                   [covered_until EXCEPT ![u] =
                        IF r.sent /\ SetMax({p.posted_timestamp : p \in r.batch}) > @
                        THEN SetMax({p.posted_timestamp : p \in r.batch}) ELSE @]
            /\ IF r.raised = "none" \/ Caught(r.raised)
               THEN pc' = pc /\ user_index' = user_index + 1
               ELSE pc' = "aborted" /\ user_index' = user_index
    /\ effects' = Append(effects, "notify_user")
    /\ UNCHANGED <<now, posts, delivery, current_timestamp,
                   force_initial_search_timestamp, active_channels, channel_index,
                   user_configs, channel_log_dumps, forced_before, schedule, tail_envs,
                   head_fails, head_raised, feed_lags, stored_late>>
    /\ UNCHANGED <<cacheVars, pickVars, newpostsVars, contextVars>>

\* notify_channel after the loop: database.store_channel_log_dump
NotifyChannelEnd ==
    /\ pc = "users"
    /\ user_index > Len(user_configs)
    /\ channel_log_dumps' =
           Append(channel_log_dumps,
                  [channel |-> active_channels[channel_index],
                   user_count |-> Len(user_configs),
                   notified_user_count |-> notified_users,
                   notified_post_count |-> notified_posts,
                   notified_thread_count |-> notified_threads])
    /\ effects' = Append(effects, "store_channel_log_dump")
    /\ channel_index' = channel_index + 1
    /\ pc' = "channels"
    /\ UNCHANGED <<storeVars, current_timestamp, force_initial_search_timestamp,
                   active_channels, user_configs, user_index, notified_users,
                   notified_posts, notified_threads, addresses, outcomes, last_call,
                   contact_requests, covered_until, forced_before, schedule, tail_envs,
                   head_fails, head_raised, feed_lags, windowed, stored_late>>
    /\ UNCHANGED <<cacheVars, pickVars, newpostsVars, contextVars>>

\* notify after notify_active_channels returned: the run summary, the log
\* upload, the maintenance and the purge of invalid user config pages. The
\* locals the rest of notify does not read are gone.
NotifyEnd ==
    /\ pc = "channels"
    /\ channel_index > Len(active_channels)
    /\ \E env \in tail_envs :
           /\ effects' = effects \o TailEffects(env.next_up, env.fail)
           /\ pc' = IF TailRaises(env.next_up, env.fail) THEN "raised" ELSE "returned"
    /\ current_timestamp' = 0
    /\ force_initial_search_timestamp' = <<>>
    /\ channel_index' = 1
    /\ user_configs' = <<>>
    /\ user_index' = 1
    /\ notified_users' = 0
    /\ notified_posts' = 0
    /\ notified_threads' = 0
    /\ addresses' = {}
    /\ outcomes' = <<>>
    /\ last_call' = NoCall
    /\ contact_requests' = 0
    /\ channel_log_dumps' = <<>>
    /\ UNCHANGED <<storeVars, active_channels, covered_until, forced_before, schedule,
                   tail_envs, head_fails, head_raised, feed_lags, windowed, stored_late>>
    /\ UNCHANGED <<cacheVars, pickVars, newpostsVars, contextVars>>

\* notify has returned or raised: the caller goes on
NotifyReturn ==
    /\ pc \in {"returned", "raised"}
    /\ pc' = "idle"
    /\ active_channels' = <<>>
    /\ effects' = <<>>
    /\ head_raised' = "none"
    /\ UNCHANGED <<storeVars, current_timestamp, force_initial_search_timestamp,
                   channel_index, user_configs, user_index, notified_users,
                   notified_posts, notified_threads, addresses, outcomes, last_call,
                   contact_requests, channel_log_dumps, covered_until, forced_before,
                   schedule, tail_envs, head_fails, feed_lags, windowed, stored_late>>
    /\ UNCHANGED <<cacheVars, pickVars, newpostsVars, contextVars>>

\* One invocation of try_cache, whose store writes the cache
TryCache ==
    /\ \E get \in GetOutcomes, do_not_store \in Values, catch \in CatchChoices :
        LET r == try_cache(get, do_not_store, catch)
        IN  /\ cache' = IF r.store_calls # <<>> THEN r.store_calls[1] ELSE cache
            /\ tc' = [get |-> get, do_not_store |-> do_not_store, catch |-> catch,
                      propagated |-> r.propagated, store_calls |-> r.store_calls,
                      cache_before |-> cache, invoked |-> TRUE]
    /\ UNCHANGED <<runVars, pickVars, newpostsVars, contextVars>>

\* One call of pick_channels_to_notify
PickChannels ==
    /\ \E force_channels \in ForceChannels, t \in Times :
        picked' = [invoked |-> TRUE, force_channels |-> force_channels, time |-> t,
                   channels |-> pick_channels_to_notify(force_channels, t)]
    /\ UNCHANGED <<runVars, cacheVars, newpostsVars, contextVars>>

\* get_new_posts is called
GetNewPostsBegin ==
    /\ gnp = "idle"
    /\ gnp' = "running"
    /\ wiki_index' = 1
    /\ gets' = <<>>
    /\ UNCHANGED <<supported_wikis, feeds>>
    /\ UNCHANGED <<runVars, cacheVars, pickVars, contextVars>>

\* get_new_posts: one turn of the loop over the supported wikis
GetNewPostsWiki ==
    /\ gnp = "running"
    /\ wiki_index <= Len(supported_wikis)
    /\ LET wiki == supported_wikis[wiki_index]
           exc == FetchWiki(feeds[wiki])
       IN  /\ gets' = Append(gets, wiki)
           /\ IF exc = "none"
              THEN wiki_index' = wiki_index + 1 /\ gnp' = gnp
              ELSE wiki_index' = wiki_index /\ gnp' = exc
    /\ UNCHANGED <<supported_wikis, feeds>>
    /\ UNCHANGED <<runVars, cacheVars, pickVars, contextVars>>

\* get_new_posts returns after the last wiki
GetNewPostsEnd ==
    /\ gnp = "running"
    /\ wiki_index > Len(supported_wikis)
    /\ gnp' = "returned"
    /\ UNCHANGED <<supported_wikis, feeds, wiki_index, gets>>
    /\ UNCHANGED <<runVars, cacheVars, pickVars, contextVars>>

\* fetch_posts_with_context, up to the loop over the new threads
FetchContextBegin ==
    /\ fpc = "idle"
    /\ LET r == fetch_new_posts_rss(context_feed)
       IN  IF r.kind = "raise"
           THEN fpc' = r.exc /\ new_thread_ids' = new_thread_ids
           ELSE /\ new_thread_ids' \in find_new_threads(r.value)
                /\ fpc' = "threads"
    /\ thread_index' = 1
    /\ post_index' = 0
    /\ UNCHANGED <<context_feed, thread_yields>>
    /\ UNCHANGED <<runVars, cacheVars, pickVars, newpostsVars>>

\* fetch_posts_with_context: connection.thread is called for a new thread
FetchContextThread ==
    /\ fpc = "threads"
    /\ thread_index <= Len(new_thread_ids)
    /\ post_index' = 0
    /\ fpc' = "posts"
    /\ UNCHANGED <<context_feed, thread_yields, new_thread_ids, thread_index>>
    /\ UNCHANGED <<runVars, cacheVars, pickVars, newpostsVars>>

\* fetch_posts_with_context: one element of the thread
FetchContextPost ==
    /\ fpc = "posts"
    /\ post_index < Len(thread_yields[new_thread_ids[thread_index]])
    /\ LET post == thread_yields[new_thread_ids[thread_index]][post_index + 1]
           exc == IF post_index = 0 THEN CategoryInfoStep(post) ELSE PostStep(post)
       IN  IF exc = "none"
           THEN post_index' = post_index + 1 /\ fpc' = fpc
           ELSE post_index' = post_index /\ fpc' = exc
    /\ UNCHANGED <<context_feed, thread_yields, new_thread_ids, thread_index>>
    /\ UNCHANGED <<runVars, cacheVars, pickVars, newpostsVars>>

\* fetch_posts_with_context: the thread has no further element
FetchContextThreadEnd ==
    /\ fpc = "posts"
    /\ post_index = Len(thread_yields[new_thread_ids[thread_index]])
    /\ thread_index' = thread_index + 1
    /\ fpc' = "threads"
    /\ UNCHANGED <<context_feed, thread_yields, new_thread_ids, post_index>>
    /\ UNCHANGED <<runVars, cacheVars, pickVars, newpostsVars>>

\* fetch_posts_with_context returns after the last new thread
FetchContextEnd ==
    /\ fpc = "threads"
    /\ thread_index > Len(new_thread_ids)
    /\ fpc' = "returned"
    /\ UNCHANGED <<context_feed, thread_yields, new_thread_ids, thread_index, post_index>>
    /\ UNCHANGED <<runVars, cacheVars, pickVars, newpostsVars>>

Next ==
    \/ Notify
    \/ NotifyChannelBegin
    \/ NotifyChannelUser
    \/ NotifyChannelEnd
    \/ NotifyEnd
    \/ NotifyReturn

\* Runs of one user from an empty database
Spec == Init /\ [][Next]_vars

\* One run of a channel of two users
SpecChannel == InitChannel /\ [][Next]_vars

\* Runs of one pm user whose posts may be stored a run late
SpecLate == InitLate /\ [][Next]_vars

NextRun ==
    \/ NotifyNoActiveChannels
    \/ Next

\* Runs of notify with any list of active channels, the empty one included
SpecRun == InitRun /\ [][NextRun]_vars

NextCache == TryCache

\* Invocations of try_cache
SpecCache == Init /\ [][NextCache]_vars

NextPick == PickChannels

\* Calls of pick_channels_to_notify
SpecPick == Init /\ [][NextPick]_vars

NextNewPosts ==
    \/ GetNewPostsBegin
    \/ GetNewPostsWiki
    \/ GetNewPostsEnd

\* One call of get_new_posts
SpecNewPosts == InitNewPosts /\ [][NextNewPosts]_vars

NextContext ==
    \/ FetchContextBegin
    \/ FetchContextThread
    \/ FetchContextPost
    \/ FetchContextThreadEnd
    \/ FetchContextEnd

\* One call of fetch_posts_with_context
SpecContext == InitContext /\ [][NextContext]_vars

----------------------------------------------------------------------------
(* Properties *)

LastDump == channel_log_dumps[Len(channel_log_dumps)]

\* the notify_user calls of this channel run that returned sent
SentOutcomes == {i \in DOMAIN outcomes : outcomes[i].raised = "none" /\ outcomes[i].sent}

RECURSIVE SumOver(_, _, _)
\* the sum of field f of the outcomes at the positions in idx
SumOver(idx, seq, f) ==
    IF idx = {} THEN 0
    ELSE LET i == CHOOSE x \in idx : TRUE
         IN seq[i][f] + SumOver(idx \ {i}, seq, f)

StoreCalls(calls) == {i \in DOMAIN calls : calls[i].op = "store_user_last_notified"}

\* a call is about to be made: the user the next notify_user call is for
NextUser == user_configs[user_index]
CallPending == pc = "users" /\ user_index <= Len(user_configs)

\* C1: whenever notify_user returns sent, it called store_user_last_notified
\* once, with the newest posted_timestamp of the batch it digested (thread
\* posts and replies together), and that is the stored watermark; the value
\* is the window end only if a post of the batch carries that timestamp.
C1_WatermarkIsNewestDigestedPost ==
    (last_call.invoked /\ last_call.raised = "none" /\ last_call.sent) =>
        /\ last_call.batch # {}
        /\ Cardinality(StoreCalls(last_call.calls)) = 1
        /\ \A i \in StoreCalls(last_call.calls) :
            /\ last_call.calls[i].ok
            /\ \A p \in last_call.batch : p.posted_timestamp <= last_call.calls[i].ts
            /\ \E p \in last_call.batch : p.posted_timestamp = last_call.calls[i].ts
            /\ last_notified[last_call.user_id] = last_call.calls[i].ts
            /\ (last_call.calls[i].ts = current_timestamp =>
                    \E p \in last_call.batch : p.posted_timestamp = current_timestamp)

\* C1 witness: a digest was sent whose newest post is older than the window
\* end, and the watermark is that post's timestamp.
C1_Witness ==
    /\ last_call.invoked /\ last_call.sent
    /\ Cardinality(last_call.batch) = 2
    /\ last_notified[last_call.user_id] < current_timestamp
    /\ last_notified[last_call.user_id] > last_call.watermark_before

\* C2 as claimed: every user whose notify_user call of this channel run did
\* not return sent has the watermark the channel run found.
C2_NotSentKeepsWatermark ==
    \A i \in DOMAIN outcomes :
        (i \notin SentOutcomes) =>
            last_notified[outcomes[i].user_id] = user_configs[i].last_notified_timestamp

\* C2 amended: every user whose notify_user call returned not-sent, or raised
\* before it called store_user_last_notified, has the watermark the channel
\* run found.
C2_NotSentBeforeStoreKeepsWatermark ==
    \A i \in DOMAIN outcomes :
        (/\ i \notin SentOutcomes
         /\ outcomes[i].raised_at \notin {"store_user_last_notified", "set_tags:445"}) =>
            last_notified[outcomes[i].user_id] = user_configs[i].last_notified_timestamp

\* C2 witness: the mail transport raised for a user with posts to digest, and
\* the user's watermark is the one the channel run found.
C2_Witness ==
    \E i \in DOMAIN outcomes :
        /\ outcomes[i].raised = "SMTPAuthenticationError"
        /\ outcomes[i].raised_at = "emailer.send"
        /\ last_notified[outcomes[i].user_id] = user_configs[i].last_notified_timestamp

\* C3 as claimed: no step lowers a user's stored watermark, whether or not
\* the run has a force_initial_search_timestamp.
C3_WatermarkNeverDecreases ==
    [][\A u \in DOMAIN last_notified : last_notified'[u] >= last_notified[u]]_vars

\* C3 amended: no step of a run without force_initial_search_timestamp
\* lowers a user's stored watermark.
C3_UnforcedWatermarkNeverDecreases ==
    [][force_initial_search_timestamp = <<>> =>
           \A u \in DOMAIN last_notified : last_notified'[u] >= last_notified[u]]_vars

\* C3 witness: a run without force_initial_search_timestamp stored a
\* watermark above an earlier stored one.
C3_Witness ==
    /\ last_call.invoked /\ last_call.sent
    /\ force_initial_search_timestamp = <<>>
    /\ last_call.watermark_before > 0
    /\ last_notified[last_call.user_id] > last_call.watermark_before

\* the posts a notify_user call for the next user would digest, if the
\* overrides mute the threads in muted
PendingBatch(muted) ==
    apply_overrides(
        get_new_posts_for_user(NextUser.user_id,
                               WindowStart(NextUser, force_initial_search_timestamp),
                               current_timestamp),
        muted)

\* C4 as claimed: the window of a notify_user call starts strictly after
\* every post of the digests sent to the user before, and no such post is in
\* the batch of the call.
C4_NoPostDigestedTwice ==
    (CallPending /\ covered_until[NextUser.user_id] > 0) =>
        /\ WindowStart(NextUser, force_initial_search_timestamp)
               > covered_until[NextUser.user_id]
        /\ \A m \in Mutes : \A p \in PendingBatch(m) :
               p.posted_timestamp > covered_until[NextUser.user_id]

\* C4 amended: as long as no run had a force_initial_search_timestamp, the
\* window of a notify_user call starts strictly after every post of the
\* digests sent to the user before, and no such post is in the batch.
C4_UnforcedNoPostDigestedTwice ==
    (CallPending /\ covered_until[NextUser.user_id] > 0 /\ ~forced_before) =>
        /\ WindowStart(NextUser, force_initial_search_timestamp)
               > covered_until[NextUser.user_id]
        /\ \A m \in Mutes : \A p \in PendingBatch(m) :
               p.posted_timestamp > covered_until[NextUser.user_id]

\* C4 witness: a call is about to be made, in runs without
\* force_initial_search_timestamp, for a user who was sent a digest before
\* and has a new post to be notified about.
C4_Witness ==
    /\ CallPending /\ ~forced_before
    /\ covered_until[NextUser.user_id] > 0
    /\ PendingBatch({}) # {}

\* C5: a notify_user call whose batch is empty after the overrides returns
\* False, 0, 0, makes no call (no message, no email, no contacts request, no
\* tag write, no watermark write) and leaves watermark, tags and address
\* cache as they were; the same call again gives the same.
C5_NoPostsNoEffect ==
    (last_call.invoked /\ last_call.fetched /\ last_call.batch = {}) =>
        /\ last_call.raised = "none"
        /\ ~last_call.sent /\ last_call.post_count = 0 /\ last_call.thread_count = 0
        /\ last_call.calls = <<>>
        /\ last_notified[last_call.user_id] = last_call.watermark_before
        /\ page_tags[last_call.user_id] = last_call.tags_before
        /\ addresses = last_call.addresses_before
        /\ LET again == notify_user(user_configs[user_index - 1], current_timestamp,
                                    force_initial_search_timestamp,
                                    Env(last_call.muted, FALSE, "none", {}), addresses)
           IN  /\ again.raised = "none" /\ ~again.sent
               /\ again.post_count = 0 /\ again.thread_count = 0
               /\ again.calls = <<>> /\ again.addresses = addresses

\* C5 witness: a call found posts in the window, the overrides removed them
\* all, and the call returned not-sent.
C5_Witness ==
    /\ last_call.invoked /\ last_call.fetched /\ last_call.batch = {}
    /\ last_call.muted # {}
    /\ \E p \in posts : /\ p.posted_timestamp >= last_call.window_start
                        /\ p.posted_timestamp <= current_timestamp
    /\ ~last_call.sent

\* C6: an exception in one notify_user call never ends the channel run:
\* the users of get_user_configs are passed to notify_user once each, in
\* order, and the channel summary stored after the last of them counts the
\* calls that returned sent.
C6_ChannelRunSurvivesExceptions ==
    /\ pc # "aborted"
    /\ pc = "users" =>
        /\ Len(outcomes) = user_index - 1
        /\ \A i \in DOMAIN outcomes : outcomes[i].user_id = user_configs[i].user_id
    /\ (pc = "channels" /\ channel_log_dumps # <<>>) =>
        /\ Len(outcomes) = Len(user_configs)
        /\ \A i \in DOMAIN outcomes : outcomes[i].user_id = user_configs[i].user_id
        /\ {outcomes[i].user_id : i \in DOMAIN outcomes}
               = {u \in DOMAIN delivery : Frequency(u) = LastDump.channel}
        /\ LastDump.user_count = Len(user_configs)
        /\ LastDump.notified_user_count = Cardinality(SentOutcomes)

\* C6 witness: the first user's call raised, the second user's digest was
\* sent, and the stored summary counts one notified user.
C6_Witness ==
    /\ pc = "channels" /\ channel_log_dumps # <<>>
    /\ Len(outcomes) = 2
    /\ outcomes[1].raised = "Exception"
    /\ outcomes[2].sent
    /\ LastDump.notified_user_count = 1

\* C7: the stored channel summary counts the calls that returned sent and
\* sums their post and thread counts; the other calls add nothing.
C7_SummaryCountsSentOnly ==
    (pc = "channels" /\ channel_log_dumps # <<>>) =>
        /\ LastDump.notified_user_count = Cardinality(SentOutcomes)
        /\ LastDump.notified_post_count = SumOver(SentOutcomes, outcomes, "post_count")
        /\ LastDump.notified_thread_count = SumOver(SentOutcomes, outcomes, "thread_count")

\* C7 witness: a summary of a channel run with one sent digest of two posts
\* and one call that returned not-sent.
C7_Witness ==
    /\ pc = "channels" /\ channel_log_dumps # <<>>
    /\ Len(outcomes) = 2
    /\ Cardinality(SentOutcomes) = 1
    /\ \E i \in DOMAIN outcomes : outcomes[i].raised = "none" /\ ~outcomes[i].sent
    /\ LastDump.notified_post_count = 2

\* C8 as claimed: the thread count of a sent digest is the number of distinct
\* thread_id values of its batch.
C8_ThreadCountIsDistinctThreads ==
    (last_call.invoked /\ last_call.sent) =>
        last_call.thread_count = Cardinality({p.thread_id : p \in last_call.batch})

\* C9 as claimed: in a channel run in which no call raised, the contacts
\* list is requested at most once.
C9_ContactsRequestedAtMostOnce ==
    (\A i \in DOMAIN outcomes : outcomes[i].raised = "none") => contact_requests <= 1

\* tc is an invocation whose get raised an exception of a kind in catch
CaughtRaise ==
    /\ tc.invoked
    /\ tc.get.kind = "raise"
    /\ tc.catch # <<>>
    /\ \E c \in tc.catch[1] : IsSubclass(tc.get.exc, c)

\* C10: when get raises an exception of a kind in catch, try_cache returns
\* normally, does not call store, and the cache is what it was.
C10_CaughtFailureKeepsCache ==
    CaughtRaise =>
        /\ tc.propagated = "none"
        /\ tc.store_calls = <<>>
        /\ cache = tc.cache_before

\* C10 witness: a value was cached, a later get raised a caught exception
\* and the value is still the cached one.
C10_Witness ==
    /\ CaughtRaise
    /\ tc.do_not_store = "[]"
    /\ tc.cache_before = "a"
    /\ cache = "a"

\* C11: every invocation of try_cache calls store at most once and never with
\* a value equal to do_not_store; it calls store, once and with the result
\* of get, exactly when get returned a result different from do_not_store.
C11_StoreOnceWithNewResult ==
    tc.invoked =>
        /\ Len(tc.store_calls) <= 1
        /\ \A i \in DOMAIN tc.store_calls : tc.store_calls[i] # tc.do_not_store
        /\ (tc.store_calls # <<>>) <=>
               (tc.get.kind = "return" /\ tc.get.value # tc.do_not_store)
        /\ (tc.store_calls # <<>>) => tc.store_calls = <<tc.get.value>>

\* C11 witness: get returned None while the sentinel was the empty list, and
\* None was stored; an invocation before it had cached something else.
C11_Witness ==
    /\ tc.invoked
    /\ tc.get.kind = "return" /\ tc.get.value = None
    /\ tc.do_not_store = "[]"
    /\ tc.store_calls = <<None>>
    /\ tc.cache_before = "a"
    /\ cache = None

\* tc is an invocation whose get raised an exception of no kind in catch
UncaughtRaise ==
    /\ tc.invoked
    /\ tc.get.kind = "raise"
    /\ \/ tc.catch = <<>>
       \/ /\ tc.catch # <<>>
          /\ \A c \in tc.catch[1] : ~IsSubclass(tc.get.exc, c)

\* C12: when get raises an exception of no kind in catch (any exception
\* when catch is None), the exception leaves try_cache, store is not called
\* and the cache is what it was.
C12_UncaughtFailurePropagates ==
    UncaughtRaise =>
        /\ tc.propagated = tc.get.exc
        /\ tc.store_calls = <<>>
        /\ cache = tc.cache_before

\* C12 witness: get raised an OSError while catch named only
\* ConnectionError, its subclass, and the OSError left try_cache.
C12_Witness ==
    /\ UncaughtRaise
    /\ tc.get.exc = "OSError"
    /\ tc.catch = <<{"ConnectionError"}>>
    /\ tc.propagated = "OSError"

\* the names in a list
Names(list) == {list[i] : i \in DOMAIN list}

\* the channels whose crontab matches the instant t
Due(t) == {notification_channels[i].name :
               i \in {j \in DOMAIN notification_channels :
                          channel_is_now(notification_channels[j].crontab, t)}}

Forced == picked.force_channels # <<>> /\ picked.force_channels[1] # <<>>

\* C13: with a non-empty forced list, pick_channels_to_notify returns the
\* forced names that are channel names, whatever the time: every other
\* name is dropped, every forced channel is returned, due or not, and
\* nothing else.
C13_ForcedListIsFilteredByName ==
    (picked.invoked /\ Forced) =>
        /\ Names(picked.channels) = Names(picked.force_channels[1]) \cap ChannelNames
        /\ \A t \in Times :
               pick_channels_to_notify(picked.force_channels, t) = picked.channels

\* C13 witness: forced with the daily channel and an unknown name, at an
\* instant when no channel is due, the call returned the daily channel alone.
C13_Witness ==
    /\ picked.invoked
    /\ picked.force_channels = <<(<<"daily", "yearly">>)>>
    /\ Due(picked.time) = {}
    /\ picked.channels = <<"daily">>

LastUser == user_configs[user_index - 1]

TagWrites(calls) == {i \in DOMAIN calls : IsSetTags(calls[i])}

\* the latest call had posts to digest and its send_message met a
\* restricted inbox
RestrictedInboxCall ==
    /\ last_call.invoked
    /\ delivery[last_call.user_id] = "pm"
    /\ last_call.batch # {}
    /\ last_call.restricted

UnknownAddressCall ==
    /\ last_call.invoked
    /\ delivery[last_call.user_id] = "email"
    /\ last_call.batch # {}
    /\ last_call.user_id \notin last_call.addresses_after
    /\ \A i \in DOMAIN last_call.calls :
           last_call.calls[i].op = "get_contacts" => last_call.calls[i].ok

\* C16: an email call with posts to digest for a user without known address
\* calls neither emailer.send nor store_user_last_notified and leaves the
\* watermark; it writes tags at most once: the user's tags plus the
\* not-a-back-contact tag, exactly when the user's tags lack it; it returns
\* False, 0, 0 and the page carries the tag (unless that write itself raised).
C16_UnknownAddressIsTagged ==
    UnknownAddressCall =>
        /\ CountCalls(last_call.calls, "emailer.send") = 0
        /\ StoreCalls(last_call.calls) = {}
        /\ last_notified[last_call.user_id] = last_call.watermark_before
        /\ Cardinality(TagWrites(last_call.calls)) <= 1
        /\ (TagWrites(last_call.calls) # {}) <=> ~HasTag(LastUser.tags, email_inform_tag)
        /\ \A i \in TagWrites(last_call.calls) :
               last_call.calls[i].tags = LastUser.tags \o <<email_inform_tag>>
        /\ IF last_call.raised = "none"
           THEN /\ ~last_call.sent
                /\ last_call.post_count = 0 /\ last_call.thread_count = 0
                /\ HasTag(page_tags[last_call.user_id], email_inform_tag)
           ELSE \E i \in TagWrites(last_call.calls) :
                    i = Len(last_call.calls) /\ ~last_call.calls[i].ok

\* C16 witness: the contacts were requested and do not hold the user, whose
\* page had no tags and now carries the not-a-back-contact tag.
C16_Witness ==
    /\ UnknownAddressCall
    /\ last_call.raised = "none"
    /\ CountCalls(last_call.calls, "get_contacts") = 1
    /\ last_call.tags_before = EmptyTags
    /\ page_tags[last_call.user_id] = <<"", email_inform_tag>>

IsDelivery(c) == c.op \in {"send_message", "emailer.send"}

\* C17: a call that returns sent has made, in this order and with nothing
\* between them, the delivery call, one store_user_last_notified and, if the
\* user carries tags, the write that clears them, and nothing after; and no
\* call makes a store_user_last_notified that does not directly follow a
\* delivery call that returned.
C17_DeliverThenStoreThenClear ==
    last_call.invoked =>
        /\ \A j \in StoreCalls(last_call.calls) :
               /\ j > 1
               /\ IsDelivery(last_call.calls[j - 1])
               /\ last_call.calls[j - 1].ok
        /\ (last_call.raised = "none" /\ last_call.sent) =>
               /\ Cardinality(StoreCalls(last_call.calls)) = 1
               /\ \A j \in StoreCalls(last_call.calls) :
                      IF LastUser.tags # EmptyTags
                      THEN /\ Len(last_call.calls) = j + 1
                           /\ last_call.calls[j + 1].op = "set_tags:445"
                           /\ last_call.calls[j + 1].tags = EmptyTags
                      ELSE Len(last_call.calls) = j

\* C17 witness: an email user who carried the not-a-back-contact tag and
\* now has an address: the tag is taken off, the email sent, the watermark
\* stored, the tags cleared.
C17_Witness ==
    /\ last_call.invoked /\ last_call.sent
    /\ Len(last_call.calls) = 4
    /\ last_call.calls[1].op = "set_tags:416"
    /\ last_call.calls[2].op = "emailer.send"
    /\ last_call.calls[3].op = "store_user_last_notified"
    /\ last_call.calls[4].op = "set_tags:445"

\* C18 as claimed: when get_new_posts has ended after a feed could not be
\* parsed (and no feed had entries to store), it has returned and
\* try_cache was called for every supported wiki.
C18_FeedFailureDoesNotAbort ==
    (/\ gnp \notin {"idle", "running"}
     /\ \E i \in DOMAIN gets : feeds[gets[i]] = "raises"
     /\ \A i \in DOMAIN supported_wikis : feeds[supported_wikis[i]] # "entries") =>
        /\ gnp = "returned"
        /\ gets = supported_wikis

\* the run's effects end with the purge of invalid user config pages
EndsWithPurge ==
    /\ Len(effects) >= 2
    /\ effects[Len(effects) - 1] = "delete_prepared_invalid_user_pages"
    /\ effects[Len(effects)] = "rename_invalid_user_config_pages"

\* C19 as claimed: every run of notify that has returned, also one without
\* active channels, ended with delete_prepared_invalid_user_pages and then
\* rename_invalid_user_config_pages.
C19_EveryRunEndsWithPurge ==
    pc = "returned" => EndsWithPurge

\* C19 amended: every run of notify with at least one active channel that
\* has returned ended with delete_prepared_invalid_user_pages and then
\* rename_invalid_user_config_pages, whichever the channels; a run without
\* active channels has returned without calling anything.
C19_RunWithChannelsEndsWithPurge ==
    pc = "returned" =>
        IF Len(active_channels) # 0 THEN EndsWithPurge ELSE effects = <<>>

\* C19 witness: a run of two channels, with maintenance for the weekly
\* channel, has returned after the purge.
C19_Witness ==
    /\ pc = "returned"
    /\ active_channels = <<"hourly", "daily">>
    /\ \E i \in DOMAIN effects : effects[i] = "clear_deleted_posts"
    /\ EndsWithPurge

Positions(op) == {i \in DOMAIN effects : effects[i] = op}

RECURSIVE ChannelRuns(_)
\* what the channel runs of the channels call, in order: notify_user for
\* each user of the channel, then store_channel_log_dump
ChannelRuns(channels) ==
    IF channels = <<>> THEN <<>>
    ELSE [i \in 1..Len(get_user_configs(Head(channels))) |-> "notify_user"]
         \o <<"store_channel_log_dump">>
         \o ChannelRuns(Tail(channels))

\* C20: in a run with active channels, a channel summary is stored once per
\* channel run, after the notify_user call of the channel's last user and
\* before the first of the next channel, and nowhere else; when the run has
\* returned, one run summary was stored, after all channel runs and before
\* the log upload, the maintenance and the purge.
C20_OneSummaryPerChannelAndRun ==
    /\ pc \in {"channels", "users"} =>
           /\ Positions("store_activation_log_dump") = {}
           /\ Cardinality(Positions("store_channel_log_dump")) = channel_index - 1
           /\ effects = ChannelRuns(SubSeq(active_channels, 1, channel_index - 1))
                        \o (IF pc = "users"
                            THEN [i \in 1..(user_index - 1) |-> "notify_user"]
                            ELSE <<>>)
    /\ (pc = "returned" /\ Len(active_channels) # 0) =>
           /\ Cardinality(Positions("store_channel_log_dump")) = Len(active_channels)
           /\ Cardinality(Positions("store_activation_log_dump")) = 1
           /\ \A a \in Positions("store_activation_log_dump") :
                  /\ SubSeq(effects, 1, a - 1) = ChannelRuns(active_channels)
                  /\ \A i \in DOMAIN effects :
                         effects[i] \in {"upload_log_dump_to_s3", "clear_deleted_posts",
                                        "delete_prepared_invalid_user_pages",
                                        "rename_invalid_user_config_pages"} => i > a

\* C20 witness: a returned run of two channels, the first with a user: the
\* user's call, two channel summaries, then the run summary.
C20_Witness ==
    /\ pc = "returned"
    /\ active_channels = <<"hourly", "daily">>
    /\ SubSeq(effects, 1, 4) = <<"notify_user", "store_channel_log_dump",
                                 "store_channel_log_dump", "store_activation_log_dump">>

\* C21: when the config sync, the fetching of the new posts or the login
\* raises in notify, the run is over with that exception: it has made no
\* notify_user call and stored no channel summary and no run summary, and
\* the step that raised, like every step until the caller goes on, leaves
\* every watermark as it was.
C21_HeadFailureAbortsBeforeUsers ==
    /\ [](head_raised # "none" =>
              /\ pc = "raised"
              /\ effects = <<>>
              /\ outcomes = <<>> /\ ~last_call.invoked
              /\ channel_log_dumps = <<>>)
    /\ [][head_raised' # "none" => last_notified' = last_notified]_vars

\* C21 witness: the login raised in the run after one that sent a digest;
\* get_new_posts had stored a newer post, which no one was notified about.
C21_Witness ==
    /\ head_raised = "login"
    /\ pc = "raised"
    /\ \E u \in DOMAIN last_notified :
           /\ last_notified[u] > 0
           /\ \E p \in posts : p.posted_timestamp > last_notified[u]

\* the latest call had posts to digest, for an email user who carries the
\* not-a-back-contact tag and whose address is known (the contacts, if they
\* were requested, were returned)
HealingCall ==
    /\ last_call.invoked
    /\ delivery[last_call.user_id] = "email"
    /\ last_call.batch # {}
    /\ HasTag(LastUser.tags, email_inform_tag)
    /\ last_call.user_id \in last_call.addresses_after
    /\ \A i \in DOMAIN last_call.calls :
           last_call.calls[i].op = "get_contacts" => last_call.calls[i].ok

HealWrites(calls) == {i \in DOMAIN calls : calls[i].op = "set_tags:416"}

FailedSends(calls) == {j \in DOMAIN calls : calls[j].op = "emailer.send" /\ ~calls[j].ok}

\* C22: an email call with posts to digest for a user who carries the
\* not-a-back-contact tag and whose address is found writes the user's
\* tags without that tag, once, and calls the mail transport only after
\* that write returned, directly after it; when the mail transport then
\* raises, the call raises, store_user_last_notified is not called, the
\* watermark is the old one and the page has lost the tag.
C22_TagClearedBeforeSend ==
    HealingCall =>
        /\ Cardinality(HealWrites(last_call.calls)) = 1
        /\ \A i \in HealWrites(last_call.calls) :
               /\ last_call.calls[i].tags = ReplaceTag(LastUser.tags, email_inform_tag)
               /\ ~HasTag(last_call.calls[i].tags, email_inform_tag)
               /\ ~last_call.calls[i].ok => i = Len(last_call.calls)
               /\ last_call.calls[i].ok =>
                      /\ Len(last_call.calls) > i
                      /\ last_call.calls[i + 1].op = "emailer.send"
               /\ \A j \in DOMAIN last_call.calls :
                      IsDelivery(last_call.calls[j]) => j = i + 1
        /\ FailedSends(last_call.calls) # {} =>
               /\ last_call.raised # "none"
               /\ StoreCalls(last_call.calls) = {}
               /\ last_notified[last_call.user_id] = last_call.watermark_before
               /\ ~HasTag(page_tags[last_call.user_id], email_inform_tag)
               /\ page_tags[last_call.user_id] # last_call.tags_before

\* C22 witness: the page carried the not-a-back-contact tag, the address
\* was found, the tag was taken off and the mail transport raised: the tag
\* is gone and the watermark is the old one.
C22_Witness ==
    /\ HealingCall
    /\ HasTag(last_call.tags_before, email_inform_tag)
    /\ Len(last_call.calls) >= 2
    /\ last_call.calls[Len(last_call.calls) - 1].op = "set_tags:416"
    /\ last_call.calls[Len(last_call.calls)].op = "emailer.send"
    /\ ~last_call.calls[Len(last_call.calls)].ok
    /\ ~HasTag(page_tags[last_call.user_id], email_inform_tag)
    /\ last_notified[last_call.user_id] = last_call.watermark_before

\* the post is still ahead of the user's watermark: the window of the next
\* notify_user call for the user without force_initial_search_timestamp
\* holds it
AheadOfWatermark(p, u) == p.posted_timestamp > last_notified[u]

\* C23 as claimed: as long as no run had a force_initial_search_timestamp,
\* every stored post, one that was stored late included, was inside the
\* lookup window of a notify_user call for the user made after the post was
\* stored, or is still ahead of the user's watermark and will be inside the
\* window of the next call.
C23_EveryStoredPostIsWindowed ==
    ~forced_before =>
        \A u \in DOMAIN last_notified : \A p \in posts :
            p \in windowed[u] \/ AheadOfWatermark(p, u)

\* C23 amended: as long as no run had a force_initial_search_timestamp,
\* every post that was stored with a posted_timestamp above the user's
\* watermark was inside the lookup window of a notify_user call for the
\* user made after the post was stored, or is still ahead of the watermark;
\* a post that was stored with a posted_timestamp at or below the watermark
\* was inside no window and is not ahead of the watermark.
C23_PostsStoredAboveWatermarkAreWindowed ==
    ~forced_before =>
        \A u \in DOMAIN last_notified :
            /\ \A p \in posts \ stored_late[u] :
                   p \in windowed[u] \/ AheadOfWatermark(p, u)
            /\ \A p \in stored_late[u] :
                   p \notin windowed[u] /\ ~AheadOfWatermark(p, u)

\* C23 witness: a digest of a post of thread 1 moved the watermark to the
\* post's timestamp; the run after it stored a post of thread 2 of the
\* same timestamp and made its notify_user call, whose window held the
\* post of that run but not the late one.
C23_Witness ==
    /\ ~forced_before
    /\ last_call.invoked /\ last_call.sent
    /\ \E p \in stored_late[last_call.user_id] :
           /\ p.thread_id = 2
           /\ p \notin windowed[last_call.user_id]
           /\ p.posted_timestamp < last_call.window_start
    /\ \E p \in posts \ stored_late[last_call.user_id] :
           /\ p.posted_timestamp = current_timestamp
           /\ p \in windowed[last_call.user_id]

\* the channels due at t are nested
Nested(due) ==
    /\ ("monthly" \in due \/ "weekly" \in due) => "daily" \in due
    /\ "daily" \in due => "8hourly" \in due
    /\ "8hourly" \in due => "hourly" \in due
    /\ "test" \notin due

\* C24: at the instant of every call of pick_channels_to_notify, and at
\* every other instant, the channels that are due are nested: monthly or
\* weekly due implies daily due, daily implies 8hourly, 8hourly implies
\* hourly, and test is never due; so a selection by time is one of the
\* prefixes of hourly, 8hourly, daily followed by none, one or both of
\* weekly and monthly, and holds hourly and 8hourly whenever it holds daily.
C24_DueChannelsAreNested ==
    picked.invoked =>
        /\ Nested(Due(picked.time))
        /\ \A t \in Times : Nested(Due(t))
        /\ ~Forced =>
               /\ Nested(Names(picked.channels))
               /\ picked.channels \in
                      {<<>>, <<"hourly">>, <<"hourly", "8hourly">>,
                       <<"hourly", "8hourly", "daily">>,
                       <<"hourly", "8hourly", "daily", "weekly">>,
                       <<"hourly", "8hourly", "daily", "monthly">>,
                       <<"hourly", "8hourly", "daily", "weekly", "monthly">>}

\* C24 witness: a call without forced list at 08:00 of a Sunday, the first
\* of the month: neither daily nor weekly nor monthly is due, and the call
\* returned hourly and 8hourly.
C24_Witness ==
    /\ picked.invoked /\ ~Forced
    /\ picked.time = <<0, 8, 1, 1, 0>>
    /\ picked.channels = <<"hourly", "8hourly">>

\* what pick_channels_to_notify returns for the forced lists (the instant
\* makes no difference to them)
ForcedPicks ==
    {pick_channels_to_notify(f, NoPick.time) :
         f \in {g \in ForceChannels : g # <<>> /\ g[1] # <<>>}}

\* the channel summaries this run has stored for the channel
SummariesOf(channel) ==
    {i \in DOMAIN channel_log_dumps : channel_log_dumps[i].channel = channel}

\* C25 as claimed: in a run whose active channels are what
\* pick_channels_to_notify returned for a forced list, no channel is in the
\* list twice and no channel has more than one channel summary.
C25_ForcedChannelRunsOnce ==
    (pc = "channels" /\ active_channels \in ForcedPicks) =>
        /\ Len(active_channels) = Cardinality(Names(active_channels))
        /\ \A c \in ChannelNames : Cardinality(SummariesOf(c)) <= 1

\* connection.thread yields the category info first and posts after it
WellFormed(elements) ==
    \A i \in DOMAIN elements : (elements[i] = "tuple") <=> (i = 1)

\* C26 as claimed: when the feed was parsed and connection.thread yields,
\* for every new thread, the category info first and posts after it,
\* fetch_posts_with_context does not raise.
C26_FetchWithContextCompletes ==
    (/\ context_feed # "raises"
     /\ \A i \in DOMAIN new_thread_ids : WellFormed(thread_yields[new_thread_ids[i]])) =>
        fpc \in {"idle", "threads", "posts", "returned"}

====
